---- MODULE Spec2Model ----
(***************************************************************************)
(* Model of src/src/decode-image.ts (maplibre-contour): the raster-dem     *)
(* pixel decoder decodeParsedImage, the four decode backends with their    *)
(* cancelable promises, the module-level scratch canvases and the          *)
(* selection of the default decoder.                                       *)
(*                                                                         *)
(* Numbers.  Elevations are JavaScript numbers stored in a Float32Array.   *)
(* They are represented here exactly: a number is a record [nan, num, den] *)
(* holding either NaN or the rational num / den in lowest terms, so that   *)
(* x * 0.1 and x / 256 are exact.  Binary rounding of the stored float is  *)
(* not represented.                                                        *)
(* Arrays are functions on 0 .. n-1, as in the source.                     *)
(***************************************************************************)
EXTENDS Integers, Naturals, Sequences, FiniteSets, TLC

\* ------------------------------------------------------------------ bounds
\* number of sample values per colour channel in the single-pixel calls
NumByteSamples == 5
\* largest width and height of a direct decodeParsedImage call
MaxDim == 2
\* longest input byte array of a direct decodeParsedImage call
MaxInputLen == 9
\* number of decode requests in flight in one module instance
NumRequests == 2

\* ------------------------------------------------------- number arithmetic
\* The operations are functions, so that each operand is evaluated once.
Numbers == [nan : BOOLEAN, num : Int, den : Nat]

GCD[a \in Nat, b \in Nat] == IF b = 0 THEN a ELSE GCD[b, a % b]

\* the number n / d in lowest terms, d > 0
Ratio[n \in Int, d \in Nat] ==
    [nan |-> FALSE,
     num |-> n \div GCD[IF n < 0 THEN -n ELSE n, d],
     den |-> d \div GCD[IF n < 0 THEN -n ELSE n, d]]

Num(n) == Ratio[n, 1]
NaN == [nan |-> TRUE, num |-> 0, den |-> 1]

\* a + b, a * k, a * 0.1 and a / 256; NaN is contagious
Add[a \in Numbers, b \in Numbers] ==
    IF a.nan \/ b.nan THEN NaN
    ELSE Ratio[a.num * b.den + b.num * a.den, a.den * b.den]
MulInt[a \in Numbers, k \in Int] ==
    IF a.nan THEN NaN ELSE Ratio[a.num * k, a.den]
Tenth[a \in Numbers] == IF a.nan THEN NaN ELSE Ratio[a.num, a.den * 10]
Div256[a \in Numbers] == IF a.nan THEN NaN ELSE Ratio[a.num, a.den * 256]

\* ------------------------------------------------------- decodeParsedImage
\* input[i] of a Uint8ClampedArray, as the number the arithmetic sees: an
\* index past the end reads undefined, which arithmetic coerces to NaN
ReadU8(input, i) == IF i \in DOMAIN input THEN Num(input[i]) ELSE NaN

\* (r, g, b) => -10000 + (r * 256 * 256 + g * 256 + b) * 0.1
MapboxDecoder_RedShift(r, g, b) ==
    Add[Num(-10000), Tenth[Add[Add[MulInt[r, 256], MulInt[g, 256]], b]]]

MapboxDecoder(r, g, b) ==
    Add[Num(-10000),
        Tenth[Add[Add[MulInt[MulInt[r, 256], 256], MulInt[g, 256]], b]]]

\* (r, g, b) => r * 256 + g + b / 256 - 32768
TerrariumDecoder(r, g, b) ==
    Add[Add[Add[MulInt[r, 256], g], Div256[b]], Num(-32768)]

\* encoding === "mapbox" ? mapbox formula : terrarium formula
Decoder(encoding, r, g, b) ==
    IF encoding = "mapbox" THEN MapboxDecoder(r, g, b)
    ELSE TerrariumDecoder(r, g, b)

\* new Float32Array(n): n cells, each 0
NewFloat32Array_AtLeastOne(n) ==
    [k \in 0 .. (IF n = 0 THEN 0 ELSE n - 1) |-> Num(0)]

NewFloat32Array(n) == [k \in 0 .. n - 1 |-> Num(0)]

\* data[k] = v on a typed array: a write past the end is dropped
StoreF32_Grow(data, k, v) ==
    [j \in (DOMAIN data) \cup {k} |-> IF j = k THEN v ELSE data[j]]

StoreF32(data, k, v) ==
    IF k \in DOMAIN data THEN [data EXCEPT ![k] = v] ELSE data

\* the three channel reads of one loop iteration
PixelAt_AlphaForBlue(input, i) ==
    <<ReadU8(input, i), ReadU8(input, i + 1), ReadU8(input, i + 3)>>

PixelAt(input, i) ==
    <<ReadU8(input, i), ReadU8(input, i + 1), ReadU8(input, i + 2)>>

ArrayLength(a) == Cardinality(DOMAIN a)

\* the loop body at index i: data[i / 4] = decoder(input[i], input[i + 1], input[i + 2])
LoopBody(i, encoding, input, data) ==
    LET px == PixelAt(input, i)
    IN  StoreF32(data, i \div 4, Decoder(encoding, px[1], px[2], px[3]))

\* const data = new Float32Array(width * height);
\* for (let i = 0; i < input.length; i += 4) <loop body>
\* after[j] is data after the first j iterations, i = 0, 4, .., 4 * (j - 1)
decodeParsedImage(width, height, encoding, input) ==
    LET iterations == (ArrayLength(input) + 3) \div 4
        after[j \in 0 .. iterations] ==
            IF j = 0 THEN NewFloat32Array(width * height)
            ELSE LoopBody(4 * (j - 1), encoding, input, after[j - 1])
    IN  [width |-> width, height |-> height, data |-> after[iterations]]

\* ------------------------------------------------------------------- state
VARIABLES
    env,               \* capabilities of the global scope the module loads in
    defaultDecoder,    \* the exported default decoder, chosen at module load
    offscreenCanvas,   \* module-level scratch OffscreenCanvas
    offscreenContext,  \* its 2d context: "undefined", "null" or "2d"
    canvas,            \* module-level scratch <canvas> element
    canvasContext,     \* its 2d context: "undefined", "null" or "2d"
    blob,              \* per request: the blob argument
    encoding,          \* per request: the encoding argument
    pc,                \* per request: where its asynchronous chain stands
    canceled,          \* per request: the closure's canceled flag
    value,             \* per request: state of the returned value promise
    img,               \* per request: the Image element of decodeImageOld
    pngStuff,          \* per request: what the async body of decodeImageNode returned
    attempts,          \* per request: image loads started, contexts requested
    call,              \* arguments of a direct call of the exported decodeParsedImage
    ret                \* what that call returned

vars == <<env, defaultDecoder, offscreenCanvas, offscreenContext, canvas,
          canvasContext, blob, encoding, pc, canceled, value, img, pngStuff,
          attempts, call, ret>>

moduleVars == <<env, defaultDecoder, offscreenCanvas, offscreenContext, canvas,
                canvasContext>>
requestVars == <<blob, encoding, pc, canceled, value, img, pngStuff, attempts>>
callVars == <<call, ret>>

Requests == 1 .. NumRequests

\* type Encoding = "terrarium" | "mapbox"
Encodings == {"mapbox", "terrarium"}

\* -------------------------------------------------------- values and inputs
NoTile == [width |-> 0, height |-> 0, data |-> <<>>]

\* promise states
Pending == [state |-> "pending", hasTile |-> FALSE, tile |-> NoTile, error |-> ""]
Fulfilled(t) == [state |-> "fulfilled", hasTile |-> TRUE, tile |-> t, error |-> ""]
FulfilledNull == [state |-> "fulfilled", hasTile |-> FALSE, tile |-> NoTile, error |-> ""]
Rejected(e) == [state |-> "rejected", hasTile |-> FALSE, tile |-> NoTile, error |-> e]

\* completion of a synchronous call: a returned tile or a thrown error
Return(t) == [threw |-> FALSE, tile |-> t, error |-> ""]
Throw(e) == [threw |-> TRUE, tile |-> NoTile, error |-> e]

\* the promise state a then-callback's completion settles its promise to
Settle(c) == IF c.threw THEN Rejected(c.error) ELSE Fulfilled(c.tile)

\* decoded images: width, height and row-major RGBA bytes, all opaque
Bytes(s) == [k \in 0 .. Len(s) - 1 |-> s[k + 1]]
NoImage == [width |-> 0, height |-> 0, pixels |-> Bytes(<<>>)]
ImageA == [width |-> 1, height |-> 1, pixels |-> Bytes(<<2, 10, 77, 255>>)]
ImageB == [width |-> 2, height |-> 1,
           pixels |-> Bytes(<<128, 0, 64, 255, 3, 200, 5, 255>>)]

\* blobs: PNG files of the two images, a non-empty blob that is no image,
\* and the empty blob
Blob(size, im) == [size |-> size, decodable |-> im # NoImage, image |-> im]
BlobA == Blob(70, ImageA)
BlobB == Blob(74, ImageB)
BlobCorrupt == Blob(12, NoImage)
BlobEmpty == Blob(0, NoImage)

\* the (blob, encoding) arguments the decoder is called with
Tiles == {<<BlobA, "mapbox">>, <<BlobA, "terrarium">>, <<BlobB, "terrarium">>,
          <<BlobCorrupt, "mapbox">>, <<BlobEmpty, "terrarium">>}

\* ------------------------------------------------------------ environment
Envs ==
    {e \in [offscreenCanvasSupported : BOOLEAN,
            WorkerGlobalScope : BOOLEAN,
            self : {"undefined", "worker", "other"},
            window : BOOLEAN] :
        e.self = "worker" => e.WorkerGlobalScope}

\* typeof WorkerGlobalScope !== "undefined" && typeof self !== "undefined"
\*   && self instanceof WorkerGlobalScope
isWorker(e) ==
    /\ e.WorkerGlobalScope
    /\ e.self # "undefined"
    /\ e.self = "worker"

\* typeof window === 'undefined'
isNodeJs(e) == ~e.window

SelectDecoder_NodeBeforeWorker(e) ==
    IF e.offscreenCanvasSupported THEN "decodeImageModern"
    ELSE IF isNodeJs(e) THEN "decodeImageNode"
    ELSE IF isWorker(e) THEN "decodeImageOnMainThread"
    ELSE "decodeImageOld"

SelectDecoder(e) ==
    IF e.offscreenCanvasSupported THEN "decodeImageModern"
    ELSE IF isWorker(e) THEN "decodeImageOnMainThread"
    ELSE IF isNodeJs(e) THEN "decodeImageNode"
    ELSE "decodeImageOld"

\* ------------------------------------------------------- canvas, getElevations
\* A canvas is its size and its bitmap.  The bitmap is kept as the pixels
\* painted since it was last cleared (<<x, y>> |-> RGBA); every other pixel
\* is transparent black.
NoPaint == [p \in {} |-> <<0, 0, 0, 0>>]
NoCanvas == [created |-> FALSE, width |-> 0, height |-> 0, paint |-> NoPaint]

\* new OffscreenCanvas(w, h) / document.createElement("canvas")
NewCanvas(w, h) == [created |-> TRUE, width |-> w, height |-> h, paint |-> NoPaint]

\* canvas.width = w; canvas.height = h: resizes and clears the bitmap
SetCanvasSize_Skip(c, w, h) == c

SetCanvasSize(c, w, h) == NewCanvas(w, h)

\* the RGBA bytes of pixel (x, y) of an image
ImagePixel(im, x, y) ==
    LET o == 4 * (y * im.width + x)
    IN  <<im.pixels[o], im.pixels[o + 1], im.pixels[o + 2], im.pixels[o + 3]>>

\* canvasContext.drawImage(img, 0, 0, img.width, img.height), opaque source:
\* the pixels of img that fall inside the canvas replace the canvas pixels
DrawImage(c, im) ==
    LET covered == {p \in (0 .. im.width - 1) \X (0 .. im.height - 1) :
                        p[1] < c.width /\ p[2] < c.height}
    IN  [c EXCEPT !.paint =
            [p \in (DOMAIN c.paint) \cup covered |->
                IF p \in covered THEN ImagePixel(im, p[1], p[2]) ELSE c.paint[p]]]

\* canvasContext.getImageData(0, 0, w, h).data: pixels outside the canvas
\* read as transparent black
GetImageData(c, w, h) ==
    [k \in 0 .. 4 * w * h - 1 |->
        LET q == k \div 4
            p == <<q % w, q \div w>>
        IN  IF p \in DOMAIN c.paint /\ p[1] < c.width /\ p[2] < c.height
            THEN c.paint[p][(k % 4) + 1]
            ELSE 0]

\* getElevations(img, encoding, canvas, canvasContext): the canvas it leaves
\* behind and its completion.  The drawn canvas and the bytes read back from
\* it are each bound once, as the one element of a set.
getElevations(im, enc, c, ctx) ==
    LET sized == SetCanvasSize(c, im.width, im.height)
        parsed(drawn) ==
            CHOOSE t \in {decodeParsedImage(im.width, im.height, enc, rgba) :
                             rgba \in {GetImageData(drawn, im.width, im.height)}} : TRUE
    IN  IF ctx # "2d"
        THEN [canvas |-> sized, completion |-> Throw("failed to get context")]
        ELSE CHOOSE g \in {[canvas |-> drawn, completion |-> Return(parsed(drawn))] :
                              drawn \in {DrawImage(sized, im)}} : TRUE


\* ------------------------------------------------------------------- Init
NoPngStuff == [ready |-> FALSE, width |-> 0, height |-> 0, pixels |-> Bytes(<<>>)]
NoImg == [src |-> "", onload |-> FALSE, loadPending |-> FALSE, errorQueued |-> FALSE]
NoCall == [active |-> FALSE, width |-> 0, height |-> 0, encoding |-> "mapbox",
           input |-> Bytes(<<>>)]
NoRet == [done |-> FALSE, completion |-> Return(NoTile)]

\* no request has been made yet
RequestsIdle ==
    /\ blob = [r \in Requests |-> Blob(0, NoImage)]
    /\ encoding = [r \in Requests |-> "mapbox"]
    /\ pc = [r \in Requests |-> "idle"]
    /\ canceled = [r \in Requests |-> FALSE]
    /\ value = [r \in Requests |-> Pending]
    /\ img = [r \in Requests |-> NoImg]
    /\ pngStuff = [r \in Requests |-> NoPngStuff]
    /\ attempts = [r \in Requests |-> [load |-> 0, ctx |-> 0]]

\* the module has just been loaded in environment e
ModuleLoaded(e) ==
    /\ env = e
    /\ defaultDecoder = SelectDecoder(e)
    /\ offscreenCanvas = NoCanvas
    /\ offscreenContext = "undefined"
    /\ canvas = NoCanvas
    /\ canvasContext = "undefined"

\* one environment of each kind: a window with OffscreenCanvas, a window
\* without it, a worker without it, and Node.js
HostEnvs ==
    {[offscreenCanvasSupported |-> TRUE, WorkerGlobalScope |-> FALSE,
      self |-> "other", window |-> TRUE],
     [offscreenCanvasSupported |-> FALSE, WorkerGlobalScope |-> FALSE,
      self |-> "other", window |-> TRUE],
     [offscreenCanvasSupported |-> FALSE, WorkerGlobalScope |-> TRUE,
      self |-> "worker", window |-> FALSE],
     [offscreenCanvasSupported |-> FALSE, WorkerGlobalScope |-> FALSE,
      self |-> "undefined", window |-> FALSE]}

Init ==
    /\ \E e \in HostEnvs : ModuleLoaded(e)
    /\ RequestsIdle
    /\ call = NoCall
    /\ ret = NoRet

\* the module loaded in any environment at all
InitAnyEnv ==
    /\ \E e \in Envs : ModuleLoaded(e)
    /\ RequestsIdle
    /\ call = NoCall
    /\ ret = NoRet

\* requests are numbered in the order the decoder is called
NextToCall(r) == pc[r] = "idle" /\ \A q \in 1 .. r - 1 : pc[q] # "idle"

\* what getContext("2d") may return
ContextResults == {"2d", "null"}

\* -------------------------------------------------------- decodeImageModern
decodeImageModern(r, b, e) ==
    /\ defaultDecoder = "decodeImageModern"
    /\ NextToCall(r)
    /\ blob' = [blob EXCEPT ![r] = b]
    /\ encoding' = [encoding EXCEPT ![r] = e]
    /\ pc' = [pc EXCEPT ![r] = "loading"]
    /\ attempts' = [attempts EXCEPT ![r].load = @ + 1]
    /\ UNCHANGED <<moduleVars, canceled, value, img, pngStuff, callVars>>

\* createImageBitmap(blob) fulfilled: the then-callback runs
ModernThen(r) ==
    /\ defaultDecoder = "decodeImageModern"
    /\ pc[r] = "loading"
    /\ blob[r].decodable
    /\ pc' = [pc EXCEPT ![r] = "done"]
    /\ IF canceled[r]
       THEN /\ value' = [value EXCEPT ![r] = FulfilledNull]
            /\ UNCHANGED <<offscreenCanvas, offscreenContext, attempts>>
       ELSE \E got \in ContextResults :
            LET create == ~offscreenCanvas.created
                im == blob[r].image
                c == IF create THEN NewCanvas(im.width, im.height)
                     ELSE offscreenCanvas
                ctx == IF create THEN got ELSE offscreenContext
            IN  \E g \in {getElevations(im, encoding[r], c, ctx)} :
                /\ create \/ got = offscreenContext
                /\ offscreenCanvas' = g.canvas
                /\ offscreenContext' = ctx
                /\ attempts' = [attempts EXCEPT ![r].ctx =
                                    IF create THEN @ + 1 ELSE @]
                /\ value' = [value EXCEPT ![r] = Settle(g.completion)]
    /\ UNCHANGED <<env, defaultDecoder, canvas, canvasContext, blob, encoding,
                   canceled, img, pngStuff, callVars>>

\* createImageBitmap(blob) rejected: the rejection passes through then()
ModernBitmapRejected(r) ==
    /\ defaultDecoder = "decodeImageModern"
    /\ pc[r] = "loading"
    /\ ~blob[r].decodable
    /\ pc' = [pc EXCEPT ![r] = "done"]
    /\ value' = [value EXCEPT ![r] = Rejected("InvalidStateError")]
    /\ UNCHANGED <<moduleVars, blob, encoding, canceled, img, pngStuff,
                   attempts, callVars>>

ModernCancel(r) ==
    /\ defaultDecoder = "decodeImageModern"
    /\ pc[r] # "idle"
    /\ ~canceled[r]
    /\ canceled' = [canceled EXCEPT ![r] = TRUE]
    /\ UNCHANGED <<moduleVars, blob, encoding, pc, value, img, pngStuff,
                   attempts, callVars>>


\* ----------------------------------------------------------- decodeImageOld
\* The Image element: assigning a blob URL to img.src starts a load that ends
\* in a load event (decodable blob) or an error event; assigning "" to img.src
\* queues an error event, the way the source relies on for the empty blob.
decodeImageOld(r, b, e) ==
    /\ defaultDecoder = "decodeImageOld"
    /\ NextToCall(r)
    /\ IF ~canvas.created
       THEN /\ canvas' = NewCanvas(300, 150)
            /\ canvasContext' \in ContextResults
       ELSE UNCHANGED <<canvas, canvasContext>>
    /\ blob' = [blob EXCEPT ![r] = b]
    /\ encoding' = [encoding EXCEPT ![r] = e]
    /\ pc' = [pc EXCEPT ![r] = "called"]
    /\ img' = [img EXCEPT ![r] =
                 [src |-> IF b.size # 0 THEN "blob:" ELSE "",
                  onload |-> TRUE,
                  loadPending |-> b.size # 0,
                  errorQueued |-> b.size = 0]]
    /\ attempts' = [attempts EXCEPT ![r] =
                      [load |-> IF b.size # 0 THEN @.load + 1 ELSE @.load,
                       ctx |-> IF ~canvas.created THEN @.ctx + 1 ELSE @.ctx]]
    /\ UNCHANGED <<env, defaultDecoder, offscreenCanvas, offscreenContext,
                   canceled, value, pngStuff, callVars>>

\* img.onload, and the then-callback its resolve(img) schedules
OldOnLoad(r) ==
    /\ defaultDecoder = "decodeImageOld"
    /\ img[r].loadPending
    /\ img[r].onload
    /\ blob[r].decodable
    /\ img' = [img EXCEPT ![r].loadPending = FALSE, ![r].onload = FALSE]
    /\ IF ~canceled[r] /\ value[r].state = "pending"
       THEN \E g \in {getElevations(blob[r].image, encoding[r], canvas, canvasContext)} :
                /\ canvas' = g.canvas
                /\ value' = [value EXCEPT ![r] = Settle(g.completion)]
       ELSE UNCHANGED <<canvas, value>>
    /\ UNCHANGED <<env, defaultDecoder, offscreenCanvas, offscreenContext,
                   canvasContext, blob, encoding, pc, canceled, pngStuff,
                   attempts, callVars>>

\* img.onerror: reject(new Error("Could not load image.")), a no-op on a
\* promise that is already settled
OldOnError_Retry(r) ==
    /\ defaultDecoder = "decodeImageOld"
    /\ \/ /\ img[r].errorQueued
          /\ img' = [img EXCEPT ![r].errorQueued = FALSE]
          /\ attempts' = attempts
       \/ /\ img[r].loadPending
          /\ ~blob[r].decodable
          /\ img' = [img EXCEPT ![r].loadPending = attempts[r].load < 2]
          /\ attempts' = [attempts EXCEPT ![r].load =
                             IF @ < 2 THEN @ + 1 ELSE @]
    /\ value' = [value EXCEPT ![r] =
                    IF @.state = "pending" /\ ~img'[r].loadPending
                    THEN Rejected("Could not load image.") ELSE @]
    /\ UNCHANGED <<moduleVars, blob, encoding, pc, canceled, pngStuff, callVars>>

OldOnError(r) ==
    /\ defaultDecoder = "decodeImageOld"
    /\ \/ /\ img[r].errorQueued
          /\ img' = [img EXCEPT ![r].errorQueued = FALSE]
       \/ /\ img[r].loadPending
          /\ ~blob[r].decodable
          /\ img' = [img EXCEPT ![r].loadPending = FALSE]
    /\ value' = [value EXCEPT ![r] =
                    IF @.state = "pending"
                    THEN Rejected("Could not load image.") ELSE @]
    /\ UNCHANGED <<moduleVars, blob, encoding, pc, canceled, pngStuff,
                   attempts, callVars>>

\* cancel, called at most once per request: canceled = true; img.src = "".
\* The load in progress is aborted unless its event is already on its way.
OldCancel_KeepSrc(r) ==
    /\ defaultDecoder = "decodeImageOld"
    /\ pc[r] = "called"
    /\ ~canceled[r]
    /\ canceled' = [canceled EXCEPT ![r] = TRUE]
    /\ UNCHANGED <<moduleVars, blob, encoding, pc, value, img, pngStuff,
                   attempts, callVars>>

OldCancel(r) ==
    /\ defaultDecoder = "decodeImageOld"
    /\ pc[r] = "called"
    /\ ~canceled[r]
    /\ canceled' = [canceled EXCEPT ![r] = TRUE]
    /\ \E delivered \in BOOLEAN :
          img' = [img EXCEPT ![r].src = "",
                             ![r].errorQueued = TRUE,
                             ![r].loadPending = @ /\ delivered]
    /\ UNCHANGED <<moduleVars, blob, encoding, pc, value, pngStuff,
                   attempts, callVars>>

\* ---------------------------------------------------------- decodeImageNode
decodeImageNode(r, b, e) ==
    /\ defaultDecoder = "decodeImageNode"
    /\ NextToCall(r)
    /\ blob' = [blob EXCEPT ![r] = b]
    /\ encoding' = [encoding EXCEPT ![r] = e]
    /\ pc' = [pc EXCEPT ![r] = "loading"]
    /\ attempts' = [attempts EXCEPT ![r].load = @ + 1]
    /\ UNCHANGED <<moduleVars, canceled, value, img, pngStuff, callVars>>

\* the async body after await blob.arrayBuffer(): PNG.load throws on bytes
\* that are no PNG, else width, height and decodePixels() are returned
NodeParse(r) ==
    /\ defaultDecoder = "decodeImageNode"
    /\ pc[r] = "loading"
    /\ IF blob[r].decodable
       THEN /\ pngStuff' = [pngStuff EXCEPT ![r] =
                              [ready |-> TRUE,
                               width |-> blob[r].image.width,
                               height |-> blob[r].image.height,
                               pixels |-> blob[r].image.pixels]]
            /\ pc' = [pc EXCEPT ![r] = "parsed"]
            /\ value' = value
       ELSE /\ pngStuff' = pngStuff
            /\ pc' = [pc EXCEPT ![r] = "done"]
            /\ value' = [value EXCEPT ![r] = Rejected("Incorrect PNG signature")]
    /\ UNCHANGED <<moduleVars, blob, encoding, canceled, img, attempts, callVars>>

\* the then-callback: new Uint8ClampedArray(pixels), decodeParsedImage
NodeThen(r) ==
    /\ defaultDecoder = "decodeImageNode"
    /\ pc[r] = "parsed"
    /\ pc' = [pc EXCEPT ![r] = "done"]
    /\ value' = [value EXCEPT ![r] =
                    Fulfilled(decodeParsedImage(pngStuff[r].width,
                        pngStuff[r].height, encoding[r], pngStuff[r].pixels))]
    /\ UNCHANGED <<moduleVars, blob, encoding, canceled, img, pngStuff,
                   attempts, callVars>>

\* cancel: canceled = true, a flag nothing reads
NodeCancel(r) ==
    /\ defaultDecoder = "decodeImageNode"
    /\ pc[r] # "idle"
    /\ ~canceled[r]
    /\ canceled' = [canceled EXCEPT ![r] = TRUE]
    /\ UNCHANGED <<moduleVars, blob, encoding, pc, value, img, pngStuff,
                   attempts, callVars>>

\* -------------------------------------------------- decodeImageOnMainThread
\* actor.send("decodeImage", [], undefined, blob, encoding): the request is
\* handed to the main thread; its promise is the actor's
decodeImageOnMainThread(r, b, e) ==
    /\ defaultDecoder = "decodeImageOnMainThread"
    /\ NextToCall(r)
    /\ blob' = [blob EXCEPT ![r] = b]
    /\ encoding' = [encoding EXCEPT ![r] = e]
    /\ pc' = [pc EXCEPT ![r] = "sent"]
    /\ UNCHANGED <<moduleVars, canceled, value, img, pngStuff, attempts, callVars>>

\* ------------------------------------------------------------------- Next
Next ==
    \E r \in Requests :
        \/ \E t \in Tiles :
              \/ decodeImageModern(r, t[1], t[2])
              \/ decodeImageOld(r, t[1], t[2])
              \/ decodeImageNode(r, t[1], t[2])
              \/ decodeImageOnMainThread(r, t[1], t[2])
        \/ ModernThen(r)
        \/ ModernBitmapRejected(r)
        \/ ModernCancel(r)
        \/ OldOnLoad(r)
        \/ OldOnError(r)
        \/ OldCancel(r)
        \/ NodeParse(r)
        \/ NodeThen(r)
        \/ NodeCancel(r)

Spec == Init /\ [][Next]_vars

\* The event loop keeps running queued callbacks and event handlers while
\* there are any; nothing obliges a caller to call the decoder or to cancel.
Handlers(r) ==
    \/ ModernThen(r)
    \/ ModernBitmapRejected(r)
    \/ OldOnLoad(r)
    \/ OldOnError(r)
    \/ NodeParse(r)
    \/ NodeThen(r)

FairSpec == Spec /\ WF_vars(\E r \in Requests : Handlers(r))


\* ----------------------------------------- the default decoder in any environment
\* a call of the default decoder, whichever backend it is
NextDispatch ==
    \E r \in Requests, t \in Tiles :
        \/ decodeImageModern(r, t[1], t[2])
        \/ decodeImageOld(r, t[1], t[2])
        \/ decodeImageNode(r, t[1], t[2])
        \/ decodeImageOnMainThread(r, t[1], t[2])

SpecAnyEnv == InitAnyEnv /\ [][NextDispatch]_vars

\* ----------------------------------- direct calls of the exported decodeParsedImage
\* encoding identifiers a caller may pass at run time
AnyEncodings == Encodings \cup {"terrain-rgb"}

ByteSamples ==
    {(i * 255) \div (NumByteSamples - 1) : i \in 0 .. NumByteSamples - 1}

ArraysOf(S, maxLen) == UNION {[0 .. n - 1 -> S] : n \in 0 .. maxLen}

\* calls on grids of every size against byte arrays of every length
GridCalls ==
    [active : {TRUE}, width : 0 .. MaxDim, height : 0 .. MaxDim,
     encoding : AnyEncodings, input : ArraysOf({0, 255}, MaxInputLen)]

\* calls on one pixel with sampled channel values
PixelCalls ==
    [active : {TRUE}, width : {1}, height : {1}, encoding : AnyEncodings,
     input : [0 .. 3 -> ByteSamples]]

InitParsed ==
    /\ ModuleLoaded([offscreenCanvasSupported |-> FALSE, WorkerGlobalScope |-> FALSE,
                     self |-> "undefined", window |-> FALSE])
    /\ RequestsIdle
    /\ call \in GridCalls \cup PixelCalls
    /\ ret = NoRet

DecodeParsed ==
    /\ call.active
    /\ ~ret.done
    /\ ret' = [done |-> TRUE,
               completion |-> Return(decodeParsedImage(call.width, call.height,
                                  call.encoding, call.input))]
    /\ UNCHANGED <<moduleVars, requestVars, call>>

NextParsed == DecodeParsed

SpecParsed == InitParsed /\ [][NextParsed]_vars


\* ------------------------------------------------------------------ claims
Rgb24(r, g, b) == r * 65536 + g * 256 + b

\* cell is the elevation the encoding assigns to the bytes r, g, b:
\* elevation * 10 = -100000 + rgb for mapbox,
\* elevation * 256 = rgb - 8388608 for terrarium
IsElevation(cell, enc, r, g, b) ==
    /\ ~cell.nan
    /\ IF enc = "mapbox"
       THEN cell.num * 10 = cell.den * (-100000 + Rgb24(r, g, b))
       ELSE cell.num * 256 = cell.den * (Rgb24(r, g, b) - 8388608)

IsZero(cell) == ~cell.nan /\ cell.num = 0

Returned == ret.completion.tile
InputLen == ArrayLength(call.input)
Cells == call.width * call.height

\* C1: for every byte triple (r, g, b) a pixel decodes to
\* -10000 + (r*65536 + g*256 + b) * 0.1 under "mapbox" and to
\* r*256 + g + b/256 - 32768 under "terrarium".
C1_ByteTripleFormula ==
    (/\ ret.done
     /\ call.encoding \in Encodings
     /\ Cells = 1
     /\ InputLen = 4)
    => LET r == call.input[0]
           g == call.input[1]
           b == call.input[2]
           cell == Returned.data[0]
       IN  /\ ~ret.completion.threw
           /\ ~cell.nan
           /\ call.encoding = "mapbox" =>
                 cell.num * 10 = cell.den * (-100000 + (r * 65536 + g * 256 + b))
           /\ call.encoding = "terrarium" =>
                 cell.num * 256 = cell.den * (r * 65536 + g * 256 + b - 8388608)

C1_Witness ==
    /\ ret.done
    /\ call.encoding = "mapbox"
    /\ Cells = 1
    /\ InputLen = 4
    /\ call.input[0] = 255 /\ call.input[1] = 255 /\ call.input[2] = 255
    /\ Returned.data[0].num * 10 = Returned.data[0].den * 16677215

\* C2: on a buffer of exactly width*height RGBA samples every cell k is the
\* encoding formula of input[4k], input[4k+1], input[4k+2] alone: the alpha
\* byte and the bytes of the other pixels have no influence on it.
C2_EveryPixelOnce ==
    (/\ ret.done
     /\ call.encoding \in Encodings
     /\ InputLen = 4 * Cells)
    => /\ DOMAIN Returned.data = 0 .. Cells - 1
       /\ \A k \in 0 .. Cells - 1 :
             /\ IsElevation(Returned.data[k], call.encoding, call.input[4 * k],
                    call.input[4 * k + 1], call.input[4 * k + 2])
             /\ \A j \in (DOMAIN call.input) \ {4 * k, 4 * k + 1, 4 * k + 2} :
                   \A v \in {0, 255} :
                      decodeParsedImage(call.width, call.height, call.encoding,
                          [call.input EXCEPT ![j] = v]).data[k] = Returned.data[k]

C2_Witness ==
    /\ ret.done
    /\ call.encoding = "terrarium"
    /\ call.width = 2 /\ call.height = 1
    /\ InputLen = 8
    /\ call.input[2] # call.input[3]
    /\ call.input[0] # call.input[4]
    /\ Returned.data[0] # Returned.data[1]

\* C3: an encoding identifier other than "mapbox" and "terrarium" makes the
\* decode fail with an InvalidEncoding error and return no grid.
C3_InvalidEncodingFails ==
    (ret.done /\ call.encoding \notin Encodings)
    => /\ ret.completion.threw
       /\ ret.completion.error = "InvalidEncoding"

\* C4: an empty pixel buffer with width = 0 and/or height = 0 decodes, under
\* either encoding, to a grid of no cells with the given width and height,
\* and raises no error.
C4_EmptyBufferEmptyGrid ==
    (/\ ret.done
     /\ call.encoding \in Encodings
     /\ InputLen = 0
     /\ (call.width = 0 \/ call.height = 0))
    => /\ ~ret.completion.threw
       /\ Returned.width = call.width
       /\ Returned.height = call.height
       /\ ArrayLength(Returned.data) = 0

C4_Witness ==
    /\ ret.done
    /\ call.encoding = "mapbox"
    /\ InputLen = 0
    /\ call.width = 0 /\ call.height = 2
    /\ Returned = [width |-> 0, height |-> 2, data |-> <<>>]

\* the parts of C9 that hold as stated: no error, the given width and
\* height, exactly width*height cells, 0 in the cells without an input pixel
C9_Shape ==
    /\ ~ret.completion.threw
    /\ Returned.width = call.width
    /\ Returned.height = call.height
    /\ DOMAIN Returned.data = 0 .. Cells - 1
    /\ \A k \in 0 .. Cells - 1 : 4 * k >= InputLen => IsZero(Returned.data[k])

\* C9 as stated: for every width, height and input, of any length, the call
\* returns without error width*height cells; cell k is decoded from input
\* bytes 4k..4k+2 when 4k < input length, pixels past the grid are ignored
\* and cells with no input pixel stay 0.
C9_AnyLengthAsStated ==
    ret.done
    => /\ C9_Shape
       /\ \A k \in 0 .. Cells - 1 :
             4 * k < InputLen =>
                /\ ~Returned.data[k].nan
                /\ (4 * k + 2 < InputLen /\ call.encoding \in Encodings) =>
                      IsElevation(Returned.data[k], call.encoding, call.input[4 * k],
                          call.input[4 * k + 1], call.input[4 * k + 2])

\* C9 amended: as stated, except that cell k is decoded from input bytes
\* 4k..4k+2 when 4k+2 < input length, and is NaN when the input ends inside
\* those three bytes (4k < input length <= 4k+2).
C9_AnyLength ==
    ret.done
    => /\ C9_Shape
       /\ \A k \in 0 .. Cells - 1 :
             /\ (4 * k + 2 < InputLen /\ call.encoding \in Encodings) =>
                   IsElevation(Returned.data[k], call.encoding, call.input[4 * k],
                       call.input[4 * k + 1], call.input[4 * k + 2])
             /\ 4 * k + 2 < InputLen => ~Returned.data[k].nan
             /\ (4 * k < InputLen /\ InputLen <= 4 * k + 2) => Returned.data[k].nan

C9_Witness ==
    /\ ret.done
    /\ call.width = 2 /\ call.height = 2
    /\ InputLen = 9
    /\ ~Returned.data[0].nan
    /\ ~Returned.data[1].nan
    /\ Returned.data[2].nan
    /\ IsZero(Returned.data[3])


\* the tile a request yields when it runs alone: the size of its own image
\* and, cell by cell, the elevation of that image's pixel under its encoding
IsOwnTile(t, im, enc) ==
    /\ t.width = im.width
    /\ t.height = im.height
    /\ DOMAIN t.data = 0 .. im.width * im.height - 1
    /\ \A k \in 0 .. im.width * im.height - 1 :
          IsElevation(t.data[k], enc, im.pixels[4 * k], im.pixels[4 * k + 1],
              im.pixels[4 * k + 2])

\* C5: however the steps of the requests in flight interleave on the shared
\* scratch canvas, a request that resolves to a DemTile resolves to the tile
\* of its own image and encoding.
C5_ConcurrentRequestsIndependent ==
    \A r \in Requests :
        value[r].hasTile => IsOwnTile(value[r].tile, blob[r].image, encoding[r])

\* request 2 was decoded on the shared canvas while request 1 was in flight,
\* and request 1, with an image of another size, was decoded after it
C5_Witness ==
    /\ defaultDecoder = "decodeImageModern"
    /\ value[1].hasTile
    /\ value[2].hasTile
    /\ blob[1] = BlobB
    /\ blob[2] = BlobA
    /\ encoding[1] # encoding[2]
    /\ offscreenCanvas.width = 2

\* the image data of request r has not arrived yet
ImageAwaited(r) ==
    IF defaultDecoder = "decodeImageOld" THEN img[r].loadPending
    ELSE pc[r] = "loading"

\* C6: in every backend, once cancel() has been called on a request whose
\* image data has not arrived, the request never resolves to a decoded
\* DemTile.
C6_CancelDiscardsLateResult ==
    \A r \in Requests :
        [](canceled[r] /\ ImageAwaited(r) => [](~value[r].hasTile))

\* the onerror handler of request r runs in this step
ErrorEventHandled(r) ==
    /\ canceled'[r] = canceled[r]
    /\ \/ img[r].errorQueued /\ ~img'[r].errorQueued
       \/ img[r].loadPending /\ ~blob[r].decodable /\ ~img'[r].loadPending

\* getElevations runs for request r in this step, with a null context
NullContextHit(r) ==
    /\ ~canceled[r]
    /\ blob[r].decodable
    /\ \/ /\ defaultDecoder = "decodeImageModern"
          /\ pc[r] = "loading" /\ pc'[r] = "done"
          /\ offscreenContext' = "null"
       \/ /\ defaultDecoder = "decodeImageOld"
          /\ img[r].loadPending /\ ~img'[r].loadPending
          /\ canceled'[r] = canceled[r]
          /\ canvasContext = "null"

\* C7: a failed image load or an unavailable 2d context rejects the request
\* in the step that meets it; a rejected request stays rejected and holds
\* no DemTile; no request loads its image or asks for a context twice.
C7_FailureReportedAtOnce ==
    [][\A r \in Requests :
          /\ (ErrorEventHandled(r) /\ value[r].state = "pending") =>
                value'[r] = Rejected("Could not load image.")
          /\ NullContextHit(r) => value'[r] = Rejected("failed to get context")
          /\ value[r].state = "rejected" => value'[r] = value[r]
          /\ value'[r].state = "rejected" => ~value'[r].hasTile
          /\ attempts'[r].load <= 1
          /\ attempts'[r].ctx <= 1]_vars

C7_Witness ==
    /\ defaultDecoder = "decodeImageOld"
    /\ value[1] = Rejected("Could not load image.")
    /\ blob[1] = BlobCorrupt
    /\ attempts[1] = [load |-> 1, ctx |-> 1]
    /\ value[2] = Rejected("failed to get context")
    /\ attempts[2] = [load |-> 1, ctx |-> 0]
    /\ ~canceled[1] /\ ~canceled[2]

\* C8: the default decoder is decodeImageModern whenever OffscreenCanvas is
\* supported, else decodeImageOnMainThread in a worker, else decodeImageNode
\* when window is undefined, else decodeImageOld; a worker without
\* OffscreenCanvas never gets the Node decoder, and decodeImageOld is chosen
\* only with window defined outside a worker.
C8_DecoderByPriority ==
    LET osc == env.offscreenCanvasSupported
        inWorker == env.self = "worker"
        noWindow == ~env.window
    IN  /\ defaultDecoder \in {"decodeImageModern", "decodeImageOnMainThread",
                               "decodeImageNode", "decodeImageOld"}
        /\ osc => defaultDecoder = "decodeImageModern"
        /\ (~osc /\ inWorker) => defaultDecoder = "decodeImageOnMainThread"
        /\ (~osc /\ ~inWorker /\ noWindow) => defaultDecoder = "decodeImageNode"
        /\ (~osc /\ ~inWorker /\ ~noWindow) => defaultDecoder = "decodeImageOld"
        /\ defaultDecoder = "decodeImageOld" => (env.window /\ ~inWorker)
        /\ \A r \in Requests :
              /\ pc[r] = "sent" <=> (pc[r] # "idle" /\ ~osc /\ inWorker)
              /\ pc[r] = "called" <=>
                    (pc[r] # "idle" /\ ~osc /\ ~inWorker /\ env.window)

C8_Witness ==
    /\ ~env.offscreenCanvasSupported
    /\ env.self = "worker"
    /\ ~env.window
    /\ pc[1] = "sent"
    /\ attempts[1].load = 0

\* the image load or parse of request r has completed
LoadCompleted(r) ==
    CASE defaultDecoder = "decodeImageModern" -> pc[r] = "done"
      [] defaultDecoder = "decodeImageNode" -> pc[r] \in {"parsed", "done"}
      [] defaultDecoder = "decodeImageOld" -> pc[r] = "called" /\ ~img[r].loadPending
      [] OTHER -> FALSE

\* C10: in every backend, once the image load or parse of a request has
\* completed, its value is eventually resolved or rejected, whenever
\* cancel() was called.
C10_EveryRequestSettles ==
    \A r \in Requests : LoadCompleted(r) ~> (value[r].state # "pending")

\* a canceled request whose load event arrived all the same, settled by the
\* error event of the emptied src
C10_Witness ==
    \E r \in Requests :
        /\ defaultDecoder = "decodeImageOld"
        /\ blob[r].decodable
        /\ canceled[r]
        /\ ~img[r].onload
        /\ value[r] = Rejected("Could not load image.")

====
